---- MODULE Spec2Model ----
(***************************************************************************)
(* Candidate enumeration and label templates of the OpenEE event-          *)
(* extraction code:                                                        *)
(*   - get_ace2005_argument_extraction_sl  (evaluation/convert_format.py)  *)
(*   - get_ace2005_trigger_detection_sl    (evaluation/convert_format.py)  *)
(*   - EAESeq2SeqProcessor.read_examples, EDSeq2SeqProcessor.read_examples *)
(*     and extract_argument   (input_engineering/seq2seq_processor.py)     *)
(*                                                                         *)
(* Spec    one of the two argument-extraction passes, run once per         *)
(*         evaluation mode, in lockstep, on the same document file,        *)
(*         golden_trigger flag and event-type prediction list, so that     *)
(*         statements relating the modes can be read off one state.        *)
(* SpecBoth  the two argument-extraction passes together, on the same      *)
(*         inputs.                                                         *)
(* SpecSrc the two seq2seq processors on a file whose lines may carry a    *)
(*         "source" tag.                                                   *)
(* SpecED  the event-detection pass.                                       *)
(* SpecRT  the labels of one trigger, encoded by read_examples and read    *)
(*         back by extract_argument.                                       *)
(* SpecOM  the character span of one candidate, mapped to word positions.  *)
(*                                                                         *)
(* A data file is read one line at a time; a line is any of the document   *)
(* shapes below.  An exception ends a run: its status becomes "error".     *)
(***************************************************************************)
EXTENDS Integers, Sequences, FiniteSets, TLC

(* ------------------------------ bounds -------------------------------- *)
MaxDocs == 2      \* lines of the data file
MaxPreds == 3     \* length of the event-type prediction list
MaxRows == 3      \* rows of the per-word prediction array
MaxLines == 3     \* lines of the data file of the event-detection pass
MaxArgs == 2      \* (role, mention) pairs of one trigger
MaxText == 4      \* characters of the text of a document

(* ---------------------------- vocabulary ------------------------------ *)
NA == "NA"
Modes == {"loose", "default", "strict"}
PredTypes == {"NA", "Attack"}

\* A mention: mention_id, surface string (a sequence of characters) and the
\* character span [position[1], position[2]).
Mention(id, surface, s, e) ==
  [mention_id |-> id, mention |-> surface, position |-> <<s, e>>]

Trigger(id, s, e, args) ==
  [id |-> id, position |-> <<s, e>>, arguments |-> args]

Argument(role, mentions) == [role |-> role, mentions |-> mentions]

Event(type, triggers) == [type |-> type, triggers |-> triggers]

\* The value of a line's "source" when the line has no such key.
NoSource == "none"

\* if item["source"] in ["<duee>", "<fewfc>", "<leven>"]
ChineseSources == {"<duee>", "<fewfc>", "<leven>"}

\* The "source" of a line: absent, or a domain tag.
Sources == {NoSource, "<duee>", "<leven>", "<ace2005>"}

Doc(name, hasEvents, events, negs, hasEntities, entities, cands) ==
  [name |-> name, has_events |-> hasEvents, events |-> events,
   negative_triggers |-> negs, has_entities |-> hasEntities,
   entities |-> entities, candidates |-> cands, source |-> NoSource]

\* The same line carrying the "source" key.
Tagged(doc, source) == [doc EXCEPT !.source = source]

\* No entity annotation; one negative trigger overlaps an argument mention,
\* the other starts where one argument mention ends and ends where the next
\* one starts.
DocOverlap ==
  Doc("overlap", TRUE,
      << Event("Attack",
           << Trigger("t1", 0, 1,
                << Argument("Victim", << Mention("a1", <<"J","o">>, 2, 4) >>),
                   Argument("Place", << Mention("a2", <<"U","S">>, 7, 9) >>) >>) >>) >>,
      << Mention("n1", <<"x">>, 3, 5), Mention("n2", <<"y">>, 4, 7) >>,
      FALSE, << >>, << >>)

\* Entity annotation: entity 1 holds the argument mention and a second
\* mention, entity 2 holds no argument mention.
DocEntities ==
  Doc("entities", TRUE,
      << Event("Attack",
           << Trigger("t1", 0, 1,
                << Argument("Victim", << Mention("e1a", <<"J","o">>, 2, 4) >>) >>) >>) >>,
      << Mention("n1", <<"x">>, 6, 7) >>,
      TRUE,
      << << Mention("e1a", <<"J","o">>, 2, 4), Mention("e1b", <<"h","e">>, 8, 10) >>,
         << Mention("e2a", <<"U","N">>, 11, 13) >> >>,
      << >>)

\* An empty event list and one negative trigger.
DocNoEvent ==
  Doc("noevent", TRUE, << >>,
      << Mention("n1", <<"x">>, 1, 2) >>,
      FALSE, << >>, << >>)

\* Two events, no negative trigger, no entity annotation.
DocTwoEvents ==
  Doc("twoevents", TRUE,
      << Event("Attack",
           << Trigger("t1", 0, 1, << >>) >>),
         Event("Die",
           << Trigger("t2", 7, 8,
                << Argument("Victim", << Mention("v1", <<"A","l">>, 9, 11),
                                         Mention("v2", <<"B","o">>, 12, 14) >>) >>) >>) >>,
      << >>, FALSE, << >>, << >>)

\* Blind inference: no "events" key, a flat candidate list.
DocBlind ==
  Doc("blind", FALSE, << >>, << >>, FALSE, << >>,
      << Mention("c1", <<"x">>, 0, 1) >>)

DocShapes == {DocOverlap, DocEntities, DocNoEvent, DocTwoEvents, DocBlind}

\* The value of "item" before the first line is read.
NoDoc == Doc("none", FALSE, << >>, << >>, FALSE, << >>, << >>)

(* ------------------------------ helpers ------------------------------- *)
Range(s) == {s[i] : i \in 1..Len(s)}

RECURSIVE Flatten(_)
Flatten(ss) == IF ss = << >> THEN << >> ELSE Head(ss) \o Flatten(Tail(ss))

RECURSIVE SeqsUpTo(_, _)
SeqsUpTo(S, n) ==
  IF n = 0 THEN {<< >>}
  ELSE LET shorter == SeqsUpTo(S, n - 1)
       IN shorter \cup {Append(s, x) : s \in {t \in shorter : Len(t) = n - 1}, x \in S}

Last(s) == s[Len(s)]

(* ------------------------------- state -------------------------------- *)
VARIABLES
  program,         \* the passes that run: "sl", "s2s", "both", "seq2seq",
                   \* "ed", "rt" or "om"
  golden_trigger,  \* data_args.golden_trigger / config.golden_trigger
  is_training,     \* EAESeq2SeqProcessor.is_training
  language,        \* config.language when read_examples starts
  preds_loaded,    \* FALSE: event_preds is None (no prediction file loaded)
  event_preds,     \* the event-type prediction list (<< >> when not loaded)
  len_preds,       \* len(preds): rows of the per-word prediction array
  bad_rows,        \* the rows i that are not flagged is_overflow[i] and whose
                   \* length differs from the word count of their text
  item,            \* the document of the current line
  k,               \* position in Work(item) of the next trigger to process
  nlines,          \* lines read so far
  enumerated,      \* the triggers the loops have reached so far, over all
                   \* lines, in order (the part of the file read so far)
  eof,             \* the loop over the lines has ended
  sl,              \* get_ace2005_argument_extraction_sl, one run per mode
  s2s,             \* EAESeq2SeqProcessor.read_examples, one run per mode
  ed,              \* get_ace2005_trigger_detection_sl, one run
  eds2s,           \* EDSeq2SeqProcessor.read_examples, one run
  rt,              \* one trigger's labels, encoded and then decoded
  om               \* one candidate's character span, mapped to words

(* ------------------ enumeration order of one document ----------------- *)
\* for event in item["events"]: for trigger in event["triggers"]
PositiveWork(events) ==
  Flatten([e \in 1..Len(events) |->
             [t \in 1..Len(events[e].triggers) |->
                [kind |-> "pos", type |-> events[e].type,
                 trigger |-> events[e].triggers[t]]]])

\* for trigger in item["negative_triggers"]
NegativeWork(negs) ==
  [n \in 1..Len(negs) |-> [kind |-> "neg", type |-> NA, trigger |-> negs[n]]]

\* for candi in item["candidates"]
CandidateWork(cands) ==
  [n \in 1..Len(cands) |-> [kind |-> "cand", type |-> NA, trigger |-> cands[n]]]

\* The triggers of a document in the order the loops visit them.
Work(doc) ==
  IF doc.has_events
  THEN PositiveWork(doc.events) \o NegativeWork(doc.negative_triggers)
  ELSE CandidateWork(doc.candidates)

(* -------------------------- type resolution --------------------------- *)
\* Variant: the index is left where it was.
NextTriggerIdx_Stuck(trigger_idx) == trigger_idx

\* trigger_idx += 1
NextTriggerIdx(trigger_idx) == trigger_idx + 1

\* convert_format.py: golden_trigger or event_preds is None
UsesGoldSL == golden_trigger \/ ~preds_loaded

\* seq2seq_processor.py: is_training or golden_trigger or event_preds is None
UsesGoldS2S == is_training \/ golden_trigger \/ ~preds_loaded

\* event_preds[trigger_idx] (Python indexes from 0)
PredAt(trigger_idx) == event_preds[trigger_idx + 1]

(* --------------------------- the mode gates --------------------------- *)
\* Variant: a positive trigger resolved to NA is skipped in every mode.
SkipPositive_EveryMode(mode, pred_type) == pred_type = NA

\* if eval_mode in ['default', 'loose']: if pred_type == "NA": continue
SkipPositive(mode, pred_type) == mode \in {"default", "loose"} /\ pred_type = NA

\* Variant: a negative trigger is scored whatever type was resolved for it.
IncludeNegative_AnyType(mode, pred_type) == mode \in {"default", "strict"}

\* if eval_mode in ['default', 'strict']: if pred_type != "NA": ...
IncludeNegative(mode, pred_type) == mode \in {"default", "strict"} /\ pred_type # NA

\* Variant: the skip applies in 'default' and 'strict' instead.
S2SSkipPositive_WrongModes(mode, pred_event_type) ==
  mode \in {"default", "strict"} /\ pred_event_type = NA

\* seq2seq_processor.py: eae_eval_mode in ["default", "loose"] and
\* pred_event_type == "NA": continue
S2SSkipPositive(mode, pred_event_type) ==
  mode \in {"default", "loose"} /\ pred_event_type = NA

\* seq2seq_processor.py: "loose": continue; "default"/"strict": only when
\* pred_event_type != "NA"
S2SIncludeNegative(mode, pred_event_type) ==
  mode # "loose" /\ mode \in {"default", "strict"} /\ pred_event_type # NA

(* ----------------- candidates of one sequence-labeling instance ------- *)
Candidate(mention, label) ==
  [mention_id |-> mention.mention_id, position |-> mention.position,
   label |-> label]

\* for argument in trigger["arguments"]: for mention in argument["mentions"]
PositiveCandidates(trigger) ==
  Flatten([a \in 1..Len(trigger.arguments) |->
             [m \in 1..Len(trigger.arguments[a].mentions) |->
                Candidate(trigger.arguments[a].mentions[m],
                          trigger.arguments[a].role)]])

\* positive_mentions: the set of mention ids of the positive candidates
PositiveMentions(trigger) ==
  {c.mention_id : c \in Range(PositiveCandidates(trigger))}

\* positive_offsets: the spans of the positive candidates, in order
PositiveOffsets(trigger) ==
  [i \in 1..Len(PositiveCandidates(trigger)) |->
     PositiveCandidates(trigger)[i].position]

\* Variant: the end offset is taken as part of the span.
Offsets_Inclusive(position) == {x \in position[1]..position[2] : TRUE}

\* set(range(position[0], position[1]))
Offsets(position) == {x \in position[1]..(position[2] - 1) : TRUE}

\* not pos_set.isdisjoint(neg_set)
Overlap(p, q) == Offsets(p) \cap Offsets(q) # {}

\* is_argument of an entity: one of its mentions is a positive mention
EntityIsArgument(entity, positive_mentions) ==
  \E i \in 1..Len(entity) : entity[i].mention_id \in positive_mentions

\* the "entities" branch: every mention of every entity that is no argument
EntityNegatives(entities, positive_mentions) ==
  Flatten([e \in 1..Len(entities) |->
             IF EntityIsArgument(entities[e], positive_mentions)
             THEN << >>
             ELSE [m \in 1..Len(entities[e]) |-> Candidate(entities[e][m], NA)]])

\* is_argument of a negative trigger: it overlaps one of the positive spans
NegIsArgument(neg, positive_offsets) ==
  \E i \in 1..Len(positive_offsets) : Overlap(positive_offsets[i], neg.position)

\* the else branch: every negative trigger that overlaps no positive span
TriggerNegatives(negs, positive_offsets) ==
  Flatten([n \in 1..Len(negs) |->
             IF NegIsArgument(negs[n], positive_offsets)
             THEN << >>
             ELSE << Candidate(negs[n], NA) >>])

\* The candidates of a positive trigger's instance, in the order their
\* labels are appended to label_names and their predictions to results.
PositiveInstanceCandidates(doc, trigger) ==
  PositiveCandidates(trigger) \o
  (IF doc.has_entities
   THEN EntityNegatives(doc.entities, PositiveMentions(trigger))
   ELSE TriggerNegatives(doc.negative_triggers, PositiveOffsets(trigger)))

\* The candidates of a negative trigger's instance:
\* for neg in item["negative_triggers"]: label "NA"
NegativeInstanceCandidates(doc) ==
  [n \in 1..Len(doc.negative_triggers) |-> Candidate(doc.negative_triggers[n], NA)]

(* ------------- get_ace2005_argument_extraction_sl: one run ------------ *)
\* A run: its counters, the instances it has scored so far (the segments of
\* label_names and results, one per value of eae_instance_idx), the types
\* it has resolved (one entry per trigger it stepped over), and how it ended.
SLStart ==
  [status |-> "running", error |-> "", trigger_idx |-> 0,
   eae_instance_idx |-> 0, instances |-> << >>, resolved |-> << >>]

Abort(r, error) == [r EXCEPT !.status = "error", !.error = error]

\* label_names: the gold labels of all candidates, in order
label_names(r) ==
  Flatten([i \in 1..Len(r.instances) |->
             [c \in 1..Len(r.instances[i].cands) |-> r.instances[i].cands[c].label]])

\* results: one prediction per candidate, read from row preds[eae_instance_idx]
\* at the candidate's span
results(r) ==
  Flatten([i \in 1..Len(r.instances) |->
             [c \in 1..Len(r.instances[i].cands) |->
                [row |-> r.instances[i].row,
                 mention_id |-> r.instances[i].cands[c].mention_id,
                 position |-> r.instances[i].cands[c].position]]])

\* pred_type of a trigger whose gold type is true_type
SLPredType(true_type, trigger_idx) ==
  IF UsesGoldSL THEN true_type ELSE PredAt(trigger_idx)

\* One entry of the resolution history.
Resolved(kind, true_type, pred_type, trigger_idx, used_gold) ==
  [kind |-> kind, true_type |-> true_type, pred_type |-> pred_type,
   index |-> trigger_idx, used_gold |-> used_gold]

\* index: the position of the instance's trigger among the triggers the
\* run has stepped over (trigger_idx - 1 once trigger_idx has advanced).
Instance(doc, w, pred_type, index, row, cands) ==
  [doc |-> doc.name, has_entities |-> doc.has_entities, kind |-> w.kind,
   trigger |-> w.trigger, true_type |-> w.type, pred_type |-> pred_type,
   index |-> index, row |-> row, cands |-> cands]

\* if not is_overflow[i]: assert len(preds[i]) == len(item["text"].split())
RowOK(i) == i \notin bad_rows

\* The checks on row eae_instance_idx, then the candidates, then
\* eae_instance_idx += 1.
SLScore(r, doc, w, pred_type, cands) ==
  IF r.eae_instance_idx >= len_preds
  THEN Abort(r, "IndexError: is_overflow[eae_instance_idx]")
  ELSE IF ~RowOK(r.eae_instance_idx)
  THEN Abort(r, "AssertionError: len(preds[eae_instance_idx])")
  ELSE [r EXCEPT !.instances =
                    Append(@, Instance(doc, w, pred_type, r.trigger_idx - 1,
                                       r.eae_instance_idx, cands)),
                 !.eae_instance_idx = @ + 1]

\* The body of "for trigger in event['triggers']" (lines 146-221).
SLPositive(r, mode, doc, w) ==
  IF ~UsesGoldSL /\ r.trigger_idx >= Len(event_preds)
  THEN Abort(r, "IndexError: event_preds[trigger_idx]")
  ELSE LET pred_type == SLPredType(w.type, r.trigger_idx)
           r1 == [r EXCEPT !.trigger_idx = NextTriggerIdx(@),
                           !.resolved = Append(@, Resolved("pos", w.type, pred_type,
                                                           r.trigger_idx, UsesGoldSL))]
       IN IF SkipPositive(mode, pred_type)
          THEN r1
          ELSE SLScore(r1, doc, w, pred_type,
                       PositiveInstanceCandidates(doc, w.trigger))

\* The body of "for trigger in item['negative_triggers']" (lines 224-265).
SLNegative(r, mode, doc, w) ==
  IF ~UsesGoldSL /\ r.trigger_idx >= Len(event_preds)
  THEN Abort(r, "IndexError: event_preds[trigger_idx]")
  ELSE LET pred_type == SLPredType(NA, r.trigger_idx)
           r1 == [r EXCEPT !.trigger_idx = NextTriggerIdx(@),
                           !.resolved = Append(@, Resolved("neg", NA, pred_type,
                                                           r.trigger_idx, UsesGoldSL))]
       IN IF IncludeNegative(mode, pred_type)
          THEN SLScore(r1, doc, w, pred_type, NegativeInstanceCandidates(doc))
          ELSE r1

\* item = json.loads(line); for event in item["events"]: a line without
\* the "events" key raises KeyError.
SLReadLine(r, doc) ==
  IF doc.has_events THEN r ELSE Abort(r, "KeyError: events")

\* Variant: rows beyond the last instance are tolerated.
AlignedSL_AtLeast(r) == len_preds >= r.eae_instance_idx

\* assert len(preds) == eae_instance_idx
AlignedSL(r) == len_preds = r.eae_instance_idx

\* After the loop: the alignment assertion, pos_labels.remove("NA"), the
\* score, return results.
SLFinish(r) ==
  IF ~AlignedSL(r)
  THEN Abort(r, "AssertionError: len(preds) == eae_instance_idx")
  ELSE IF NA \notin Range(label_names(r))
  THEN Abort(r, "ValueError: pos_labels.remove")
  ELSE [r EXCEPT !.status = "done"]

(* ------------------- the bracketed label template --------------------- *)
\* Text is a sequence of characters.  A role name of a document is kept as
\* one element (an atom of characters none of which is a blank, ":", "<"
\* or ">").
type_start == "<"
type_end == ">"
split_word == ":"

\* whitespace = " " if language == "English" else ""
Whitespace(lang) == IF lang = "English" THEN << " " >> ELSE << >>

\* Variant: the mention is written before the role.
EncodeLabel_Swapped(role, mention, whitespace) ==
  << type_start >> \o whitespace \o mention \o << split_word >> \o whitespace
    \o role \o whitespace \o << type_end >>

\* f"{type_start}{whitespace}{role}{split_word}{whitespace}{mention}{whitespace}{type_end}"
EncodeLabel(role, mention, whitespace) ==
  << type_start >> \o whitespace \o role \o << split_word >> \o whitespace
    \o mention \o whitespace \o << type_end >>

\* labels = "".join(labels), "" when there is none; pairs: <<role, mention>>
EncodeLabels(pairs, whitespace) ==
  Flatten([i \in 1..Len(pairs) |-> EncodeLabel(pairs[i][1], pairs[i][2], whitespace)])

\* The (role, mention) pairs of a trigger in label order.
TriggerPairs(trigger) ==
  Flatten([a \in 1..Len(trigger.arguments) |->
             [m \in 1..Len(trigger.arguments[a].mentions) |->
                << << trigger.arguments[a].role >>,
                   trigger.arguments[a].mentions[m].mention >>]])

\* arguments_per_trigger: role -> the mentions of that role, in order
ArgumentsPerTrigger(trigger) ==
  LET pairs == TriggerPairs(trigger)
      roles == {pairs[i][1] : i \in 1..Len(pairs)}
  IN [role \in roles |->
        Flatten([i \in 1..Len(pairs) |->
                   IF pairs[i][1] = role THEN << pairs[i][2] >> ELSE << >>])]

(* --------------------------- extract_argument ------------------------- *)
\* The characters the template treats specially; a blank is the only
\* whitespace character of the texts below.
Blank == " "

\* template.split(raw_text), template = re.compile("<|>"): the pieces of
\* the text between the occurrences of "<" and ">", empty pieces included.
RECURSIVE SplitOn(_, _)
SplitOn(text, seps) ==
  LET cut == {i \in 1..Len(text) : text[i] \in seps} IN
  IF cut = {} THEN << text >>
  ELSE LET i == CHOOSE j \in cut : \A h \in cut : j <= h
       IN << SubSeq(text, 1, i - 1) >> \o SplitOn(SubSeq(text, i + 1, Len(text)), seps)

\* str.strip(): without its leading and trailing whitespace
RECURSIVE Strip(_)
Strip(text) ==
  IF text = << >> THEN << >>
  ELSE IF Head(text) = Blank THEN Strip(Tail(text))
  ELSE IF text[Len(text)] = Blank THEN Strip(SubSeq(text, 1, Len(text) - 1))
  ELSE text

\* str.replace(" ", "")
RECURSIVE RemoveBlanks(_)
RemoveBlanks(text) ==
  IF text = << >> THEN << >>
  ELSE (IF Head(text) = Blank THEN << >> ELSE << Head(text) >>) \o RemoveBlanks(Tail(text))

\* The argument a span of the text yields: none when the span is blank,
\* when it does not split into two words at ":", or when the role or the
\* value is empty.
SpanArguments(span, instance_id, event_type) ==
  LET words == SplitOn(Strip(span), {split_word})
      role == RemoveBlanks(Strip(words[1]))
      value == RemoveBlanks(Strip(words[2]))
  IN IF Strip(span) = << >> THEN {}
     ELSE IF Len(words) # 2 THEN {}
     ELSE IF role # << >> /\ value # << >>
     THEN {<< instance_id, event_type, role, value >>}
     ELSE {}

\* extract_argument: list(set(arguments)), as a set
extract_argument(raw_text, instance_id, event_type) ==
  LET spans == SplitOn(raw_text, {type_start, type_end})
  IN UNION {SpanArguments(spans[i], instance_id, event_type) : i \in 1..Len(spans)}

(* ----------------- character spans to word positions ----------------- *)
\* text[a:b]
Slice(text, a, b) == SubSeq(text, a + 1, b)

\* str.split(): the maximal runs of characters that are not whitespace
RECURSIVE Split(_)
Split(text) ==
  IF text = << >> THEN << >>
  ELSE IF Head(text) = Blank THEN Split(Tail(text))
  ELSE LET blanks == {i \in 1..Len(text) : text[i] = Blank}
           stop == IF blanks = {} THEN Len(text) + 1
                   ELSE CHOOSE i \in blanks : \A j \in blanks : i <= j
       IN << SubSeq(text, 1, stop - 1) >> \o Split(SubSeq(text, stop, Len(text)))

\* "".join(words)
Join(words) == Flatten(words)

\* The number of words of the text, which the rows of the per-word
\* prediction array are asserted to have: len(item["text"].split()), or
\* len("".join(item["text"].split())).
WordCount(text, lang) ==
  IF lang = "English" THEN Len(Split(text))
  ELSE IF lang = "Chinese" THEN Len(Join(Split(text)))
  ELSE -1

\* word_pos_start and word_pos_end of a candidate at char_pos; a language
\* other than the two raises NotImplementedError.
WordPos(text, char_pos, lang) ==
  IF lang = "English"
  THEN LET word_pos_start == Len(Split(Slice(text, 0, char_pos[1])))
       IN [raised |-> FALSE,
           word_pos_start |-> word_pos_start,
           word_pos_end |-> word_pos_start
                              + Len(Split(Slice(text, char_pos[1], char_pos[2])))]
  ELSE IF lang = "Chinese"
  THEN [raised |-> FALSE,
        word_pos_start |-> Len(Join(Split(Slice(text, 0, char_pos[1])))),
        word_pos_end |-> Len(Join(Split(Slice(text, 0, char_pos[2]))))]
  ELSE [raised |-> TRUE, word_pos_start |-> -1, word_pos_end |-> -1]

(* -------------- EAESeq2SeqProcessor.read_examples: one run ------------ *)
\* event: the loop variable "event", which outlives its loop; "unbound"
\* until a loop over a non-empty event list has run.
\* config_language: self.config.language, which the "source" of a line
\* rebinds; the variable "language" is the local read from it on entry.
\* source: kwargs["source"] of the current line.
S2SStart ==
  [status |-> "running", error |-> "", trigger_idx |-> 0, event |-> "unbound",
   config_language |-> language, source |-> NoSource,
   examples |-> << >>, golden_arguments |-> << >>, resolved |-> << >>]

\* self.config.language after the "source" branch of a line.
LanguageAfterSource(config_language, source) ==
  IF source = NoSource THEN config_language
  ELSE IF source \in ChineseSources THEN "Chinese" ELSE "English"

\* words_language: the language get_words segments the text with;
\* source: kwargs["source"].
Example(example_id, pred_type, true_type, trigger, labels, kind, source, words_language) ==
  [example_id |-> example_id, pred_type |-> pred_type, true_type |-> true_type,
   trigger_left |-> trigger.position[1], trigger_right |-> trigger.position[2],
   labels |-> labels, kind |-> kind, source |-> source,
   words_language |-> words_language]

\* The value of "event" once "for event in item['events']" has finished.
EventAfterLoop(event, doc) ==
  IF doc.has_events /\ Len(doc.events) > 0 THEN Last(doc.events).type ELSE event

\* The "source" branch of a line (lines 131-138).  The loop over the events
\* of a line is done before its negative triggers are visited, and "event"
\* is read only there: it is rebound here.
S2SReadLine(r, doc) ==
  [r EXCEPT !.config_language = LanguageAfterSource(@, doc.source),
            !.source = doc.source,
            !.event = EventAfterLoop(@, doc)]

\* pred_event_type of a positive trigger (lines 147-150)
S2SPredType(true_type, trigger_idx) ==
  IF UsesGoldS2S THEN true_type ELSE PredAt(trigger_idx)

\* pred_event_type of a negative trigger (lines 184-187): event["type"]
S2SNegPredType(event, trigger_idx) ==
  IF UsesGoldS2S THEN event ELSE PredAt(trigger_idx)

\* The body of "for trigger in event['triggers']" (lines 146-181).
S2SPositive(r, mode, w) ==
  IF ~UsesGoldS2S /\ r.trigger_idx >= Len(event_preds)
  THEN Abort(r, "IndexError: event_preds[trigger_idx]")
  ELSE LET pred_event_type == S2SPredType(w.type, r.trigger_idx)
           r1 == [r EXCEPT !.trigger_idx = NextTriggerIdx(@),
                           !.resolved = Append(@, Resolved("pos", w.type, pred_event_type,
                                                           r.trigger_idx, UsesGoldS2S))]
       IN IF S2SSkipPositive(mode, pred_event_type)
          THEN r1
          ELSE [r1 EXCEPT
                  !.golden_arguments = Append(@, ArgumentsPerTrigger(w.trigger)),
                  !.examples =
                     Append(@, Example(r1.trigger_idx - 1, pred_event_type, w.type,
                                       w.trigger,
                                       EncodeLabels(TriggerPairs(w.trigger),
                                                    Whitespace(language)),
                                       "pos", r.source, language))]

\* The body of "for neg_trigger in item['negative_triggers']" (lines 183-209).
S2SNegative(r, mode, w) ==
  IF UsesGoldS2S /\ r.event = "unbound"
  THEN Abort(r, "NameError: event")
  ELSE IF ~UsesGoldS2S /\ r.trigger_idx >= Len(event_preds)
  THEN Abort(r, "IndexError: event_preds[trigger_idx]")
  ELSE LET pred_event_type == S2SNegPredType(r.event, r.trigger_idx)
           r1 == [r EXCEPT !.trigger_idx = NextTriggerIdx(@),
                           !.resolved = Append(@, Resolved("neg", NA, pred_event_type,
                                                           r.trigger_idx, UsesGoldS2S))]
       IN IF S2SIncludeNegative(mode, pred_event_type)
          THEN [r1 EXCEPT
                  !.golden_arguments = Append(@, << >>),
                  !.examples =
                     Append(@, Example(r1.trigger_idx - 1, pred_event_type, NA,
                                       w.trigger, << >>, "neg", r.source, language))]
          ELSE r1

\* The body of "for candi in item['candidates']" (lines 211-229).
S2SCandidate(r, w) ==
  IF ~preds_loaded
  THEN Abort(r, "TypeError: event_preds is None")
  ELSE IF r.trigger_idx >= Len(event_preds)
  THEN Abort(r, "IndexError: event_preds[trigger_idx]")
  ELSE LET pred_event_type == PredAt(r.trigger_idx)
           r1 == [r EXCEPT !.trigger_idx = NextTriggerIdx(@),
                           !.resolved = Append(@, Resolved("cand", NA, pred_event_type,
                                                           r.trigger_idx, FALSE))]
       IN IF pred_event_type # NA
          THEN [r1 EXCEPT
                  !.golden_arguments = Append(@, << >>),
                  !.examples =
                     Append(@, Example(r1.trigger_idx - 1, pred_event_type, NA,
                                       w.trigger, << >>, "cand", r.source, language))]
          ELSE r1

\* if self.event_preds is not None: assert trigger_idx == len(self.event_preds)
S2SFinish(r) ==
  IF preds_loaded /\ r.trigger_idx # Len(event_preds)
  THEN Abort(r, "AssertionError: trigger_idx == len(event_preds)")
  ELSE [r EXCEPT !.status = "done"]

(* --------------- get_ace2005_trigger_detection_sl: one run ------------ *)
\* lines: the names of the documents read so far (i is their number);
\* label_names and results keep, beside the label and the row read, the
\* candidate each entry was appended for.
EDStart ==
  [status |-> "running", error |-> "", lines |-> << >>,
   label_names |-> << >>, results |-> << >>]

\* for event in item["events"]: for trigger in event["triggers"]:
\* label_names.append(event["type"]); candidates.append(trigger)
EDPositives(doc) ==
  Flatten([e \in 1..Len(doc.events) |->
             [t \in 1..Len(doc.events[e].triggers) |->
                [label |-> doc.events[e].type,
                 mention_id |-> doc.events[e].triggers[t].id,
                 position |-> doc.events[e].triggers[t].position]]])

\* for neg_trigger in item["negative_triggers"]:
\* label_names.append("NA"); candidates.append(neg_trigger)
EDNegatives(doc) ==
  [n \in 1..Len(doc.negative_triggers) |->
     [label |-> NA, mention_id |-> doc.negative_triggers[n].mention_id,
      position |-> doc.negative_triggers[n].position]]

\* Variant: the negative triggers come first.
EDLabelled_NegativesFirst(doc) == EDNegatives(doc) \o EDPositives(doc)

\* The labelled candidates of a document with events.
EDLabelled(doc) == EDPositives(doc) \o EDNegatives(doc)

\* candidates: the labelled ones, or item["candidates"] when the document
\* has no "events" key.
EDCandidates(doc) ==
  IF doc.has_events
  THEN [c \in 1..Len(EDLabelled(doc)) |->
          [mention_id |-> EDLabelled(doc)[c].mention_id,
           position |-> EDLabelled(doc)[c].position]]
  ELSE [c \in 1..Len(doc.candidates) |->
          [mention_id |-> doc.candidates[c].mention_id,
           position |-> doc.candidates[c].position]]

\* The body of "for i, line in enumerate(lines)" (lines 49-86).
EDLine(r, doc) ==
  LET i == Len(r.lines) IN
  IF i >= len_preds
  THEN Abort(r, "IndexError: is_overflow[i]")
  ELSE IF ~RowOK(i)
  THEN Abort(r, "AssertionError: len(preds[i])")
  ELSE [r EXCEPT
          !.lines = Append(@, doc.name),
          !.label_names =
             @ \o (IF doc.has_events
                   THEN [c \in 1..Len(EDLabelled(doc)) |->
                           [label |-> EDLabelled(doc)[c].label, line |-> i,
                            mention_id |-> EDLabelled(doc)[c].mention_id]]
                   ELSE << >>),
          !.results =
             @ \o [c \in 1..Len(EDCandidates(doc)) |->
                     [row |-> i, line |-> i,
                      mention_id |-> EDCandidates(doc)[c].mention_id,
                      position |-> EDCandidates(doc)[c].position]]]

\* After the loop (lines 88-94): when the last document has events, the
\* positive label set and the score (sklearn's f1_score raises ValueError
\* on lists of different lengths); then return results.
EDFinish(r, doc) ==
  IF r.lines = << >>
  THEN Abort(r, "NameError: item")
  ELSE IF ~doc.has_events
  THEN [r EXCEPT !.status = "done"]
  ELSE IF NA \notin {r.label_names[j].label : j \in 1..Len(r.label_names)}
  THEN Abort(r, "ValueError: pos_labels.remove")
  ELSE IF Len(r.label_names) # Len(r.results)
  THEN Abort(r, "ValueError: f1_score")
  ELSE [r EXCEPT !.status = "done"]

(* --------------- EDSeq2SeqProcessor.read_examples: one run ------------ *)
\* config_language: self.config.language, "language" on entry.
EDS2SStart ==
  [status |-> "running", error |-> "", config_language |-> language,
   examples |-> << >>]

\* labels: one bracketed label per trigger, built from the type of its
\* event and from the trigger; kept as the pair it is built from.
EDS2SLabels(doc) ==
  Flatten([e \in 1..Len(doc.events) |->
             [t \in 1..Len(doc.events[e].triggers) |->
                [type |-> doc.events[e].type,
                 trigger |-> doc.events[e].triggers[t].id]]])

\* The body of "for idx, line in enumerate(...)" (lines 51-84):
\* self.config.language is rebound by the "source" of the line and then
\* passed to get_words; a line without events makes an example without
\* kwargs.
EDS2SLine(r, doc) ==
  LET config_language == LanguageAfterSource(r.config_language, doc.source)
  IN [r EXCEPT
        !.config_language = config_language,
        !.examples =
           Append(@, [example_id |-> Len(r.examples),
                      source |-> doc.source,
                      has_kwargs |-> doc.has_events,
                      words_language |-> config_language,
                      labels |-> IF doc.has_events THEN EDS2SLabels(doc)
                                 ELSE << >>])]

\* The loop over the lines has ended.
EDS2SFinish(r) == [r EXCEPT !.status = "done"]

(* ------------------------------ the passes ---------------------------- *)
vars == << program, golden_trigger, is_training, language, preds_loaded,
           event_preds, len_preds, bad_rows, item, k, nlines, enumerated, eof, sl, s2s,
           ed, eds2s, rt, om >>

config == << program, golden_trigger, is_training, language, preds_loaded,
             event_preds, len_preds, bad_rows >>

Running(r) == r.status = "running"

\* One trigger of the file, as the loops reach it.
Seen(doc, w) == [doc |-> doc.name, kind |-> w.kind, type |-> w.type]

SomeRunning ==
  \/ \E m \in Modes : Running(sl[m]) \/ Running(s2s[m])
  \/ Running(eds2s)

\* The triggers of the current line have all been visited.
LineDone == k > Len(Work(item))

\* No labels are being encoded and decoded.
RTIdle ==
  [pc |-> "idle", language |-> "English", arguments |-> << >>,
   labels |-> << >>, decoded |-> {}]

\* No span is being mapped.
OMIdle ==
  [pc |-> "idle", language |-> "English", text |-> << >>, char_pos |-> << 0, 0 >>,
   word_pos |-> << >>]

\* A run of the pass that is not the one under way.
Idle(r) == [r EXCEPT !.status = "idle"]

\* The inputs of the sequence-labeling converter.
InitSL ==
  /\ program = "sl"
  /\ is_training = FALSE
  /\ language = "English"
  /\ len_preds \in 0..MaxRows
  /\ bad_rows \in {{}} \cup {{i} : i \in 0..(len_preds - 1)}
  /\ sl = [m \in Modes |-> SLStart]
  /\ s2s = [m \in Modes |-> Idle(S2SStart)]

\* The inputs of the seq2seq processor.
InitS2S ==
  /\ program = "s2s"
  /\ is_training \in BOOLEAN
  /\ language \in {"English", "Chinese"}
  /\ len_preds = 0
  /\ bad_rows = {}
  /\ sl = [m \in Modes |-> Idle(SLStart)]
  /\ s2s = [m \in Modes |-> S2SStart]

Init ==
  /\ golden_trigger \in BOOLEAN
  /\ preds_loaded \in BOOLEAN
  /\ event_preds \in SeqsUpTo(PredTypes, MaxPreds)
  /\ (~preds_loaded => event_preds = << >>)
  /\ (InitSL \/ InitS2S)
  /\ ed = Idle(EDStart)
  /\ eds2s = Idle(EDS2SStart)
  /\ rt = RTIdle
  /\ om = OMIdle
  /\ item = NoDoc
  /\ k = 1
  /\ nlines = 0
  /\ enumerated = << >>
  /\ eof = FALSE

\* The "source" keys of the lines of the file: files of several sources
\* are read by the pass of the two seq2seq processors (SpecSrc).
LineSources == IF program = "seq2seq" THEN Sources ELSE {NoSource}

\* for line in lines: item = json.loads(line.strip())
ReadLine ==
  /\ ~eof /\ LineDone /\ SomeRunning /\ nlines < MaxDocs
  /\ \E shape \in DocShapes, source \in LineSources :
       LET doc == Tagged(shape, source) IN
       /\ item' = doc
       /\ sl' = [m \in Modes |-> IF Running(sl[m]) THEN SLReadLine(sl[m], doc) ELSE sl[m]]
       /\ s2s' = [m \in Modes |-> IF Running(s2s[m]) THEN S2SReadLine(s2s[m], doc) ELSE s2s[m]]
       /\ eds2s' = IF Running(eds2s) THEN EDS2SLine(eds2s, doc) ELSE eds2s
  /\ k' = 1
  /\ nlines' = nlines + 1
  /\ UNCHANGED << config, enumerated, eof, ed, rt, om >>

\* One positive trigger, in every run that is still going.
ProcessTrigger ==
  /\ ~eof /\ ~LineDone /\ SomeRunning
  /\ Work(item)[k].kind = "pos"
  /\ sl' = [m \in Modes |->
              IF Running(sl[m]) THEN SLPositive(sl[m], m, item, Work(item)[k]) ELSE sl[m]]
  /\ s2s' = [m \in Modes |->
               IF Running(s2s[m]) THEN S2SPositive(s2s[m], m, Work(item)[k]) ELSE s2s[m]]
  /\ k' = k + 1
  /\ enumerated' = Append(enumerated, Seen(item, Work(item)[k]))
  /\ UNCHANGED << config, item, nlines, eof, ed, eds2s, rt, om >>

\* One negative trigger, in every run that is still going.
ProcessNegative ==
  /\ ~eof /\ ~LineDone /\ SomeRunning
  /\ Work(item)[k].kind = "neg"
  /\ sl' = [m \in Modes |->
              IF Running(sl[m]) THEN SLNegative(sl[m], m, item, Work(item)[k]) ELSE sl[m]]
  /\ s2s' = [m \in Modes |->
               IF Running(s2s[m]) THEN S2SNegative(s2s[m], m, Work(item)[k]) ELSE s2s[m]]
  /\ k' = k + 1
  /\ enumerated' = Append(enumerated, Seen(item, Work(item)[k]))
  /\ UNCHANGED << config, item, nlines, eof, ed, eds2s, rt, om >>

\* One candidate of a line without events (a sequence-labeling run has
\* ended with KeyError when the line was read).
ProcessCandidate ==
  /\ ~eof /\ ~LineDone /\ SomeRunning
  /\ Work(item)[k].kind = "cand"
  /\ s2s' = [m \in Modes |->
               IF Running(s2s[m]) THEN S2SCandidate(s2s[m], Work(item)[k]) ELSE s2s[m]]
  /\ k' = k + 1
  /\ enumerated' = Append(enumerated, Seen(item, Work(item)[k]))
  /\ UNCHANGED << config, item, nlines, eof, sl, ed, eds2s, rt, om >>

\* The loop over the lines ends: the final assertions and the score.
EndOfFile ==
  /\ ~eof /\ LineDone
  /\ eof' = TRUE
  /\ sl' = [m \in Modes |-> IF Running(sl[m]) THEN SLFinish(sl[m]) ELSE sl[m]]
  /\ s2s' = [m \in Modes |-> IF Running(s2s[m]) THEN S2SFinish(s2s[m]) ELSE s2s[m]]
  /\ eds2s' = IF Running(eds2s) THEN EDS2SFinish(eds2s) ELSE eds2s
  /\ UNCHANGED << config, item, k, nlines, enumerated, ed, rt, om >>

Next ==
  \/ ReadLine
  \/ ProcessTrigger
  \/ ProcessNegative
  \/ ProcessCandidate
  \/ EndOfFile

Spec == Init /\ [][Next]_vars

(* ------------- the two seq2seq processors on a tagged file ------------ *)
\* EDSeq2SeqProcessor and EAESeq2SeqProcessor (once per evaluation mode)
\* read the same file, whose lines may carry a "source"; gold event types
\* are used, no prediction file is loaded.
InitSrc ==
  /\ program = "seq2seq"
  /\ golden_trigger = TRUE
  /\ is_training = FALSE
  /\ language \in {"English", "Chinese"}
  /\ preds_loaded = FALSE
  /\ event_preds = << >>
  /\ len_preds = 0
  /\ bad_rows = {}
  /\ item = NoDoc
  /\ k = 1
  /\ nlines = 0
  /\ enumerated = << >>
  /\ eof = FALSE
  /\ sl = [m \in Modes |-> Idle(SLStart)]
  /\ s2s = [m \in Modes |-> S2SStart]
  /\ ed = Idle(EDStart)
  /\ eds2s = EDS2SStart
  /\ rt = RTIdle
  /\ om = OMIdle

SpecSrc == InitSrc /\ [][Next]_vars

(* ---------- the two argument-extraction passes on one input ----------- *)
\* get_ace2005_argument_extraction_sl and EAESeq2SeqProcessor (not in
\* training) are given the same file, golden_trigger flag and event-type
\* prediction list, and run once per evaluation mode.
InitBoth ==
  /\ program = "both"
  /\ golden_trigger \in BOOLEAN
  /\ is_training = FALSE
  /\ language = "English"
  /\ preds_loaded \in BOOLEAN
  /\ event_preds \in SeqsUpTo(PredTypes, MaxPreds)
  /\ (~preds_loaded => event_preds = << >>)
  /\ len_preds \in 0..MaxRows
  /\ bad_rows \in {{}} \cup {{i} : i \in 0..(len_preds - 1)}
  /\ item = NoDoc
  /\ k = 1
  /\ nlines = 0
  /\ enumerated = << >>
  /\ eof = FALSE
  /\ sl = [m \in Modes |-> SLStart]
  /\ s2s = [m \in Modes |-> S2SStart]
  /\ ed = Idle(EDStart)
  /\ eds2s = Idle(EDS2SStart)
  /\ rt = RTIdle
  /\ om = OMIdle

SpecBoth == InitBoth /\ [][Next]_vars

(* --------------------- the event-detection pass ---------------------- *)
InitED ==
  /\ program = "ed"
  /\ golden_trigger = FALSE
  /\ is_training = FALSE
  /\ language = "English"
  /\ preds_loaded = FALSE
  /\ event_preds = << >>
  /\ len_preds \in 0..MaxRows
  /\ bad_rows \in {{}} \cup {{i} : i \in 0..(len_preds - 1)}
  /\ item = NoDoc
  /\ k = 1
  /\ nlines = 0
  /\ enumerated = << >>
  /\ eof = FALSE
  /\ sl = [m \in Modes |-> Idle(SLStart)]
  /\ s2s = [m \in Modes |-> Idle(S2SStart)]
  /\ ed = EDStart
  /\ eds2s = Idle(EDS2SStart)
  /\ rt = RTIdle
  /\ om = OMIdle

\* for i, line in enumerate(lines): one document
EDReadLine ==
  /\ ~eof /\ Running(ed) /\ nlines < MaxLines
  /\ \E doc \in DocShapes :
       /\ item' = doc
       /\ ed' = EDLine(ed, doc)
  /\ nlines' = nlines + 1
  /\ UNCHANGED << config, k, enumerated, eof, sl, s2s, eds2s, rt, om >>

\* The loop over the lines ends.
EDEndOfFile ==
  /\ ~eof /\ Running(ed)
  /\ eof' = TRUE
  /\ ed' = EDFinish(ed, item)
  /\ UNCHANGED << config, item, k, nlines, enumerated, sl, s2s, eds2s, rt, om >>

NextED ==
  \/ EDReadLine
  \/ EDEndOfFile

SpecED == InitED /\ [][NextED]_vars

(* ---------------- labels of one trigger, there and back -------------- *)
\* Role names and mention strings of an annotation file.
RoleTexts == { << "A" >>, << "B", "y" >>, << "T", " ", "W" >> }

MentionTexts ==
  { << "J", "o" >>, << "A" >>, << "N", " ", "Y" >>, << "a", ":", "b" >>,
    << "x", "<" >>, << ">" >>, << " " >> }

InitRT ==
  /\ program = "rt"
  /\ golden_trigger = FALSE
  /\ is_training = FALSE
  /\ language = "English"
  /\ preds_loaded = FALSE
  /\ event_preds = << >>
  /\ len_preds = 0
  /\ bad_rows = {}
  /\ item = NoDoc
  /\ k = 1
  /\ nlines = 0
  /\ enumerated = << >>
  /\ eof = FALSE
  /\ sl = [m \in Modes |-> Idle(SLStart)]
  /\ s2s = [m \in Modes |-> Idle(S2SStart)]
  /\ ed = Idle(EDStart)
  /\ eds2s = Idle(EDS2SStart)
  /\ \E lang \in {"English", "Chinese"} :
       \E pairs \in SeqsUpTo(RoleTexts \X MentionTexts, MaxArgs) :
         rt = [pc |-> "start", language |-> lang, arguments |-> pairs,
               labels |-> << >>, decoded |-> {}]
  /\ om = OMIdle

\* read_examples builds the labels of the trigger (lines 158-169).
RTEncode ==
  /\ rt.pc = "start"
  /\ rt' = [rt EXCEPT !.pc = "encoded",
                      !.labels = EncodeLabels(rt.arguments, Whitespace(rt.language))]
  /\ UNCHANGED << config, item, k, nlines, enumerated, eof, sl, s2s, ed, eds2s, om >>

\* extract_argument reads the labels back.
RTDecode ==
  /\ rt.pc = "encoded"
  /\ rt' = [rt EXCEPT !.pc = "decoded",
                      !.decoded = extract_argument(rt.labels, 0, "Attack")]
  /\ UNCHANGED << config, item, k, nlines, enumerated, eof, sl, s2s, ed, eds2s, om >>

NextRT ==
  \/ RTEncode
  \/ RTDecode

SpecRT == InitRT /\ [][NextRT]_vars

(* --------------- one candidate's span, mapped to words --------------- *)
\* The characters of a text: a letter and the blank.
Chars == {"a", Blank}

\* A text, a language and a candidate whose span lies inside the text.
InitOM ==
  /\ program = "om"
  /\ golden_trigger = FALSE
  /\ is_training = FALSE
  /\ language = "English"
  /\ preds_loaded = FALSE
  /\ event_preds = << >>
  /\ len_preds = 0
  /\ bad_rows = {}
  /\ item = NoDoc
  /\ k = 1
  /\ nlines = 0
  /\ enumerated = << >>
  /\ eof = FALSE
  /\ sl = [m \in Modes |-> Idle(SLStart)]
  /\ s2s = [m \in Modes |-> Idle(S2SStart)]
  /\ ed = Idle(EDStart)
  /\ eds2s = Idle(EDS2SStart)
  /\ rt = RTIdle
  /\ \E lang \in {"English", "Chinese"} :
       \E text \in SeqsUpTo(Chars, MaxText) :
         \E start \in 0..Len(text) : \E end \in start..Len(text) :
           om = [pc |-> "start", language |-> lang, text |-> text,
                 char_pos |-> << start, end >>, word_pos |-> << >>]

\* The body of "for candidate in candidates" up to get_pred_per_mention.
MapOffsets ==
  /\ om.pc = "start"
  /\ LET pos == WordPos(om.text, om.char_pos, om.language) IN
       om' = [om EXCEPT !.pc = IF pos.raised THEN "raised" ELSE "mapped",
                        !.word_pos = << pos.word_pos_start, pos.word_pos_end >>]
  /\ UNCHANGED << config, item, k, nlines, enumerated, eof, sl, s2s, ed, eds2s, rt >>

NextOM == MapOffsets

SpecOM == InitOM /\ [][NextOM]_vars

(* ====================================================================== *)
(*                              Properties                                *)
(* ====================================================================== *)
AfterLoopErrors ==
  {"AssertionError: len(preds) == eae_instance_idx",
   "ValueError: pos_labels.remove",
   "AssertionError: trigger_idx == len(event_preds)"}

\* The run has stepped over every trigger reached so far: it is still in
\* its loops, or it left them at the end of the file (returning, or raising
\* in what follows the loops).
Going(r) ==
  \/ r.status \in {"running", "done"}
  \/ r.status = "error" /\ r.error \in AfterLoopErrors

\* The run has made a full pass over the file.
FullPass(r) == eof /\ Going(r)

\* The triggers reached so far are all triggers of documents with events.
NoBlindLine == \A i \in 1..Len(enumerated) : enumerated[i].kind # "cand"

\* Positions (from 0) of the triggers whose instance a run has scored.
SLScored(r) == {r.instances[i].index : i \in 1..Len(r.instances)}
S2SScored(r) == {r.examples[i].example_id : i \in 1..Len(r.examples)}

\* Instance counts.
SLCount(r) == r.eae_instance_idx
S2SCount(r) == Len(r.examples)

\* Positions (from 0) of the triggers reached so far that satisfy P.
Positions(P(_)) == {i - 1 : i \in {j \in 1..Len(enumerated) : P(j)}}

(* ---------------------------------------------------------------------- *)
(* C1 as stated: in 'strict' mode every trigger, positive and negative,    *)
(* produces one scored instance: after a full pass the instance count is   *)
(* the number of positive triggers plus the number of negative triggers.   *)
C1_StrictScoresEveryTrigger ==
  NoBlindLine =>
    /\ FullPass(sl["strict"]) => SLCount(sl["strict"]) = Len(enumerated)
    /\ FullPass(s2s["strict"]) => S2SCount(s2s["strict"]) = Len(enumerated)

\* The triggers a 'strict' run scores: every positive trigger, and the
\* negative triggers whose resolved type is not NA.
StrictScored(r) ==
  Positions(LAMBDA j : \/ enumerated[j].kind = "pos"
                       \/ enumerated[j].kind = "neg" /\ r.resolved[j].pred_type # NA)

(* C1 amended: in 'strict' mode every positive trigger produces one scored *)
(* instance whatever type was resolved for it, and a negative trigger      *)
(* produces one exactly when its resolved type is not NA; the instance     *)
(* count is the number of positive triggers plus the number of negative    *)
(* triggers whose resolved type is not NA.                                 *)
C1_StrictScoresPositivesAndPredictedNegatives ==
  NoBlindLine =>
    /\ Going(sl["strict"]) =>
         /\ SLScored(sl["strict"]) = StrictScored(sl["strict"])
         /\ SLCount(sl["strict"]) = Cardinality(StrictScored(sl["strict"]))
    /\ Going(s2s["strict"]) =>
         /\ S2SScored(s2s["strict"]) = StrictScored(s2s["strict"])
         /\ S2SCount(s2s["strict"]) = Cardinality(StrictScored(s2s["strict"]))

\* A 'strict' pass that returned, and that met a positive trigger resolved
\* to NA (scored), a negative trigger resolved to NA (not scored) and a
\* negative trigger resolved to another type (scored).
C1_Witness ==
  LET r == sl["strict"] IN
  /\ r.status = "done"
  /\ \E i \in 1..Len(r.resolved) :
       r.resolved[i].kind = "pos" /\ r.resolved[i].pred_type = NA
       /\ (i - 1) \in SLScored(r)
  /\ \E i \in 1..Len(r.resolved) :
       r.resolved[i].kind = "neg" /\ r.resolved[i].pred_type = NA
       /\ (i - 1) \notin SLScored(r)
  /\ \E i \in 1..Len(r.resolved) :
       r.resolved[i].kind = "neg" /\ r.resolved[i].pred_type # NA
       /\ (i - 1) \in SLScored(r)

(* ---------------------------------------------------------------------- *)
\* The instance a sequence-labeling run scored for the trigger at position i.
InstanceAt(r, i) == CHOOSE inst \in Range(r.instances) : inst.index = i

(* C2: in 'default' mode a positive trigger's instance is skipped iff its  *)
(* resolved type is NA, a negative trigger's instance is included iff its  *)
(* resolved type is not NA, and an included negative trigger contributes   *)
(* only candidates whose gold label is NA.                                 *)
C2_DefaultGate ==
  /\ Going(sl["default"]) =>
       \A i \in 1..Len(sl["default"].resolved) :
         LET t == sl["default"].resolved[i]
             scored == (i - 1) \in SLScored(sl["default"])
         IN /\ t.kind = "pos" => (~scored <=> t.pred_type = NA)
            /\ t.kind = "neg" => (scored <=> t.pred_type # NA)
            /\ (t.kind = "neg" /\ scored) =>
                 \A c \in Range(InstanceAt(sl["default"], i - 1).cands) : c.label = NA
  /\ Going(s2s["default"]) =>
       \A i \in 1..Len(s2s["default"].resolved) :
         LET t == s2s["default"].resolved[i]
             scored == (i - 1) \in S2SScored(s2s["default"])
         IN /\ t.kind = "pos" => (~scored <=> t.pred_type = NA)
            /\ t.kind = "neg" => (scored <=> t.pred_type # NA)

\* A 'default' pass that returned after skipping a positive trigger
\* resolved to NA, scoring a positive trigger, skipping a negative trigger
\* resolved to NA and scoring a negative trigger with candidates.
C2_Witness ==
  LET r == sl["default"] IN
  /\ r.status = "done"
  /\ \E i \in 1..Len(r.resolved) :
       r.resolved[i].kind = "pos" /\ r.resolved[i].pred_type = NA
       /\ (i - 1) \notin SLScored(r)
  /\ \E i \in 1..Len(r.resolved) :
       r.resolved[i].kind = "neg" /\ r.resolved[i].pred_type # NA
       /\ (i - 1) \in SLScored(r)
       /\ InstanceAt(r, i - 1).cands # << >>
  /\ \E i \in 1..Len(r.resolved) :
       r.resolved[i].kind = "neg" /\ r.resolved[i].pred_type = NA

(* ---------------------------------------------------------------------- *)
(* C3: for a fixed file, golden_trigger setting and event-type prediction  *)
(* list, the instance count under 'loose' is at most the count under       *)
(* 'default', which is at most the count under 'strict'.                   *)
C3_ModeMonotonicity ==
  /\ (Going(sl["loose"]) /\ Going(sl["default"])) =>
       SLCount(sl["loose"]) <= SLCount(sl["default"])
  /\ (Going(sl["default"]) /\ Going(sl["strict"])) =>
       SLCount(sl["default"]) <= SLCount(sl["strict"])
  /\ (Going(s2s["loose"]) /\ Going(s2s["default"])) =>
       S2SCount(s2s["loose"]) <= S2SCount(s2s["default"])
  /\ (Going(s2s["default"]) /\ Going(s2s["strict"])) =>
       S2SCount(s2s["default"]) <= S2SCount(s2s["strict"])

\* Full passes of the three modes over one file with three different
\* instance counts.
C3_Witness ==
  /\ FullPass(sl["loose"]) /\ FullPass(sl["default"]) /\ FullPass(sl["strict"])
  /\ 0 < SLCount(sl["loose"])
  /\ SLCount(sl["loose"]) < SLCount(sl["default"])
  /\ SLCount(sl["default"]) < SLCount(sl["strict"])

(* ---------------------------------------------------------------------- *)
ActiveRuns ==
  {r \in {sl[m] : m \in Modes} \cup {s2s[m] : m \in Modes} : r.status # "idle"}

(* C4: whenever training mode is on, or golden_trigger is set, or no       *)
(* prediction file was loaded, the type resolved for a trigger is its own  *)
(* gold type (the event's type for a positive trigger, NA for a negative   *)
(* one), and resolving the type of a negative trigger needs no event.      *)
C4_BackfillIsGoldType ==
  /\ \A m \in Modes :
       \A i \in 1..Len(sl[m].resolved) :
         sl[m].resolved[i].used_gold =>
           sl[m].resolved[i].pred_type = sl[m].resolved[i].true_type
  /\ \A m \in Modes :
       \A i \in 1..Len(s2s[m].resolved) :
         s2s[m].resolved[i].used_gold =>
           s2s[m].resolved[i].pred_type = s2s[m].resolved[i].true_type
  /\ \A m \in Modes : s2s[m].error # "NameError: event"

(* ---------------------------------------------------------------------- *)
(* C5: the index into the event-type prediction list advances by exactly   *)
(* one per trigger processed (positive, negative or blind candidate),      *)
(* scored or not, in every mode: the k-th trigger reached reads element k, *)
(* and after a full pass the index is the number of triggers reached.      *)
C5_IndexAdvancesPerTrigger ==
  \A r \in ActiveRuns :
    /\ r.trigger_idx = Len(r.resolved)
    /\ Going(r) => r.trigger_idx = Len(enumerated)
    /\ \A i \in 1..Len(r.resolved) :
         /\ i <= Len(enumerated)
         /\ r.resolved[i].kind = enumerated[i].kind
         /\ r.resolved[i].index = i - 1
         /\ ~r.resolved[i].used_gold =>
              /\ i <= Len(event_preds)
              /\ r.resolved[i].pred_type = event_preds[i]

\* A full 'loose' pass of the seq2seq processor that read its predictions
\* from the list, over a positive trigger it skipped, a negative trigger
\* and a blind-inference candidate.
C5_Witness ==
  LET r == s2s["loose"] IN
  /\ r.status = "done"
  /\ r.trigger_idx = 3
  /\ \E i \in 1..Len(r.resolved) :
       r.resolved[i].kind = "pos" /\ ~r.resolved[i].used_gold
       /\ (i - 1) \notin S2SScored(r)
  /\ \E i \in 1..Len(r.resolved) : r.resolved[i].kind = "neg"
  /\ \E i \in 1..Len(r.resolved) : r.resolved[i].kind = "cand"

(* ---------------------------------------------------------------------- *)
\* The converter returned its results (and printed the score).
Returned(r) == r.status = "done"

(* C6: the argument-extraction converter returns results only when the     *)
(* instance count at the end of the pass equals the number of rows of the  *)
(* prediction array; with fewer or more rows, or with the event-type       *)
(* prediction list exhausted before the last trigger, the pass ends with   *)
(* an error and returns nothing.                                           *)
C6_AlignmentIsFatal ==
  \A m \in Modes :
    /\ Returned(sl[m]) =>
         /\ eof
         /\ SLCount(sl[m]) = len_preds
         /\ Len(sl[m].instances) = len_preds
         /\ ~UsesGoldSL => Len(enumerated) <= Len(event_preds)
    /\ (program = "sl" /\ eof) => sl[m].status \in {"done", "error"}
    /\ (program = "sl" /\ ~eof) => sl[m].status \in {"running", "error"}
    /\ (program = "sl" /\ ~UsesGoldSL /\ Len(enumerated) > Len(event_preds)) =>
         sl[m].status = "error"

\* At the end of one file the 'strict' pass returned its results for two
\* instances while the 'default' pass, with fewer instances than the array
\* has rows, ended in the alignment assertion.
C6_Witness ==
  /\ eof
  /\ Returned(sl["strict"]) /\ SLCount(sl["strict"]) = 2
  /\ sl["default"].error = "AssertionError: len(preds) == eae_instance_idx"
  /\ SLCount(sl["default"]) < len_preds

(* ---------------------------------------------------------------------- *)
DocNamed(name) == CHOOSE d \in DocShapes : d.name = name

\* The NA-labelled candidates of an instance, and the others.
NACandidates(inst) == {c \in Range(inst.cands) : c.label = NA}
RoleCandidates(inst) == {c \in Range(inst.cands) : c.label # NA}

\* The mentions of the entities of a document none of whose mentions is
\* the mention of a positive candidate of the instance.
UnusedEntityMentions(inst) ==
  LET doc == DocNamed(inst.doc)
      used == {c.mention_id : c \in RoleCandidates(inst)}
  IN UNION {Range(doc.entities[e]) :
              e \in {f \in 1..Len(doc.entities) :
                       \A mn \in Range(doc.entities[f]) : mn.mention_id \notin used}}

(* C7: for every scored instance of a document that has entities, of a     *)
(* positive trigger or of a surviving negative trigger, the NA candidates  *)
(* are exactly the mentions of the entities that have no mention in the    *)
(* instance's positive set; negative_triggers is no candidate source.      *)
C7_EntityNegatives ==
  \A m \in Modes :
    \A inst \in Range(sl[m].instances) :
      inst.has_entities =>
        {[mention_id |-> c.mention_id, position |-> c.position] : c \in NACandidates(inst)}
          = {[mention_id |-> mn.mention_id, position |-> mn.position] :
               mn \in UnusedEntityMentions(inst)}

(* ---------------------------------------------------------------------- *)
\* The character spans [p[1], p[2]) and [q[1], q[2]) share an offset.
SharesOffset(p, q) == \E x \in p[1]..(p[2] - 1) : q[1] <= x /\ x < q[2]

(* C8: in the instance of a positive trigger of a document without         *)
(* entities, a negative_triggers mention is an NA candidate iff its span   *)
(* shares no character offset with the span of any positive argument       *)
(* mention of the trigger; no NA candidate overlaps a positive candidate,  *)
(* and an overlapping negative trigger gets no label and no prediction.    *)
C8_DisjointNegatives ==
  \A m \in Modes :
    \A inst \in Range(sl[m].instances) :
      (inst.kind = "pos" /\ ~inst.has_entities) =>
        LET doc == DocNamed(inst.doc)
            args == UNION {Range(inst.trigger.arguments[a].mentions) :
                             a \in 1..Len(inst.trigger.arguments)}
        IN /\ \A neg \in Range(doc.negative_triggers) :
                (\E c \in NACandidates(inst) : c.mention_id = neg.mention_id)
                  <=> (\A mn \in args : ~SharesOffset(neg.position, mn.position))
           /\ \A c \in NACandidates(inst) :
                \A d \in RoleCandidates(inst) : ~SharesOffset(c.position, d.position)
           /\ {c.mention_id : c \in RoleCandidates(inst)}
                = {mn.mention_id : mn \in args}
           /\ \A c \in NACandidates(inst) :
                \E neg \in Range(doc.negative_triggers) : neg.mention_id = c.mention_id
           /\ Len(label_names(sl[m])) = Len(results(sl[m]))

\* A scored positive trigger of a document without entities, one of whose
\* negative triggers overlaps an argument mention (left out) while another
\* touches two argument mentions without overlapping them (kept as NA).
C8_Witness ==
  \E m \in Modes :
    \E inst \in Range(sl[m].instances) :
      /\ inst.kind = "pos" /\ ~inst.has_entities
      /\ \E neg \in Range(DocNamed(inst.doc).negative_triggers) :
           /\ \E d \in RoleCandidates(inst) : SharesOffset(neg.position, d.position)
           /\ \A c \in NACandidates(inst) : c.mention_id # neg.mention_id
      /\ \E c \in NACandidates(inst) :
           \E d \in RoleCandidates(inst) : c.position[1] = d.position[2]

(* ---------------------------------------------------------------------- *)
\* The predictions extracted for documents that carry events.
EDScoredResults(r) ==
  LET keep == {j \in 1..Len(r.results) : DocNamed(r.lines[r.results[j].line + 1]).has_events}
      nth[n \in 0..Len(r.results)] ==
        IF n = 0 THEN << >>
        ELSE IF n \in keep THEN Append(nth[n - 1], r.results[n]) ELSE nth[n - 1]
  IN nth[Len(r.results)]

\* The gold labels a list of documents calls for: per document with
\* events, the type of each trigger in event-then-trigger order, then NA
\* for each negative trigger.
RECURSIVE ExpectedEDLabels(_)
ExpectedEDLabels(names) ==
  IF names = << >> THEN << >>
  ELSE LET doc == DocNamed(Head(names))
           pos == Flatten([e \in 1..Len(doc.events) |->
                             [t \in 1..Len(doc.events[e].triggers) |-> doc.events[e].type]])
           neg == [n \in 1..Len(doc.negative_triggers) |-> NA]
       IN (IF doc.has_events THEN pos \o neg ELSE << >>)
            \o ExpectedEDLabels(Tail(names))

(* C9: event detection: each trigger of a document with events gives one   *)
(* candidate labelled with its event's type and each negative trigger one  *)
(* candidate labelled NA, positives in event-then-trigger order before the *)
(* document's negatives; over the documents with events the gold labels    *)
(* and the predictions have the same length and the i-th of each belong to *)
(* the same candidate.                                                     *)
C9_EventDetectionEnumeration ==
  ed.status \in {"running", "done"} =>
    /\ [j \in 1..Len(ed.label_names) |-> ed.label_names[j].label]
         = ExpectedEDLabels(ed.lines)
    /\ Len(EDScoredResults(ed)) = Len(ed.label_names)
    /\ \A j \in 1..Len(ed.label_names) :
         /\ EDScoredResults(ed)[j].mention_id = ed.label_names[j].mention_id
         /\ EDScoredResults(ed)[j].line = ed.label_names[j].line
         /\ EDScoredResults(ed)[j].row = ed.label_names[j].line
    /\ (\A j \in 1..Len(ed.lines) : DocNamed(ed.lines[j]).has_events) =>
         Len(ed.results) = Len(ed.label_names)

\* The pass returned after two documents with events, the first with
\* positive and negative triggers, the second with two events.
C9_Witness ==
  /\ ed.status = "done"
  /\ ed.lines = << "overlap", "twoevents" >>
  /\ Len(ed.label_names) = 5
  /\ Len(ed.results) = 5

(* ---------------------------------------------------------------------- *)
\* The (role, value) pairs extract_argument returned.
DecodedPairs == {<< a[3], a[4] >> : a \in rt.decoded}

(* C10 as stated: for any set of (role, value) pairs of one trigger,       *)
(* decoding the labels built from them yields exactly the original set of  *)
(* pairs (order-insensitive, duplicates collapsed); the empty set encodes  *)
(* to the empty string and decodes to the empty list.                      *)
C10_RoundTripAnyPairs ==
  rt.pc = "decoded" =>
    /\ DecodedPairs = Range(rt.arguments)
    /\ rt.arguments = << >> => (rt.labels = << >> /\ rt.decoded = {})

\* A role or value that survives the template: not empty, and free of
\* blanks, ":", "<" and ">".
Plain(text) ==
  /\ text # << >>
  /\ \A i \in 1..Len(text) : text[i] \notin {Blank, split_word, type_start, type_end}

(* C10 amended: the round trip yields the original set of pairs for any    *)
(* set of pairs whose roles and values are non-empty and contain no blank, *)
(* ":", "<" or ">"; the empty set encodes to the empty string and decodes  *)
(* to the empty list.                                                      *)
C10_RoundTripPlainPairs ==
  rt.pc = "decoded" =>
    /\ (\A i \in 1..Len(rt.arguments) :
          Plain(rt.arguments[i][1]) /\ Plain(rt.arguments[i][2]))
         => DecodedPairs = Range(rt.arguments)
    /\ rt.arguments = << >> => (rt.labels = << >> /\ rt.decoded = {})

\* Two different plain pairs, encoded with English spacing and read back.
C10_Witness ==
  /\ rt.pc = "decoded"
  /\ rt.language = "English"
  /\ Len(rt.arguments) = 2
  /\ rt.arguments[1] # rt.arguments[2]
  /\ \A i \in 1..2 : Plain(rt.arguments[i][1]) /\ Plain(rt.arguments[i][2])
  /\ Cardinality(rt.decoded) = 2

(* ------------------------------- C11 ---------------------------------- *)
\* The language a source tag stands for.
TagLanguage(source) == IF source \in ChineseSources THEN "Chinese" ELSE "English"

\* The examples of a run whose line carried a source tag.
TaggedExamples(r) == {e \in Range(r.examples) : e.source # NoSource}

\* The event-detection processor segments a tagged line with the language
\* of its tag.
EDS2SFollowsSource ==
  \A e \in TaggedExamples(eds2s) : e.words_language = TagLanguage(e.source)

\* The argument-extraction processor segments a tagged line, and spaces
\* its labels, with the language of its tag.
EAES2SFollowsSource ==
  \A m \in Modes : \A e \in TaggedExamples(s2s[m]) :
    e.words_language = TagLanguage(e.source)

\* C11: when a line carries a source tag, the language used to segment its
\* text into words and to space its labels is the language of the tag
\* (Chinese for <duee>, <fewfc>, <leven>, English for any other tag), in the
\* event-detection and in the argument-extraction seq2seq processor, for
\* every line of the file whatever was read before it.
C11_SourceSetsLanguage == EDS2SFollowsSource /\ EAES2SFollowsSource

(* ------------------------------- C12 ---------------------------------- *)
\* The triggers (by position among the triggers reached) a run has made
\* instances of, in the order it made them.
SLSelected(r) == [i \in 1..Len(r.instances) |-> r.instances[i].index]
S2SSelected(r) == [i \in 1..Len(r.examples) |-> r.examples[i].example_id]

\* Both runs of a mode have stepped over every trigger reached so far.
BothGoing(m) == Going(sl[m]) /\ Going(s2s[m])

\* The two enumerators of a mode have selected the same triggers, in the
\* same order.
Agree(m) == SLSelected(sl[m]) = S2SSelected(s2s[m])

\* C12: given the same file, evaluation mode, golden_trigger flag and
\* event-type prediction list, the sequence-labeling converter and the
\* seq2seq processor (not in training) select the same triggers as
\* instances, in the same order, so that their instance counts are equal
\* after every document.
C12_EnumeratorsAgree ==
  \A m \in Modes : BothGoing(m) => Agree(m)

\* The same, for runs that read the types from the prediction list.
AgreeOnPredictedTypes ==
  ~UsesGoldSL => C12_EnumeratorsAgree

\* The same, for the files without negative triggers.
AgreeWithoutNegatives ==
  (\A i \in 1..Len(enumerated) : enumerated[i].kind = "pos") => C12_EnumeratorsAgree

(* ------------------------------- C13 ---------------------------------- *)
\* A span has been mapped.
Mapped == om.pc = "mapped"

\* The character at offset i (from 0) of the text being mapped.
CharAt(i) == om.text[i + 1]

\* A word starts at offset i: a character that is not whitespace and that
\* follows whitespace or starts the text.
WordStartsAt(i) == CharAt(i) # Blank /\ (i = 0 \/ CharAt(i - 1) = Blank)

\* The index (from 0) of the word that contains the character at offset
\* i, which is not whitespace: whitespace-delimited words for English,
\* single characters for Chinese.
WordIndexOf(i) ==
  IF om.language = "English"
  THEN Cardinality({j \in 0..i : WordStartsAt(j)}) - 1
  ELSE Cardinality({j \in 0..(i - 1) : CharAt(j) # Blank})

\* The mapped word span lies inside the words of the text.
InsideWords ==
  /\ 0 <= om.word_pos[1]
  /\ om.word_pos[1] <= om.word_pos[2]
  /\ om.word_pos[2] <= WordCount(om.text, om.language)

\* word_pos_start is the word of the character the span starts at.
StartsAtItsWord ==
  (om.char_pos[1] < Len(om.text) /\ CharAt(om.char_pos[1]) # Blank)
    => om.word_pos[1] = WordIndexOf(om.char_pos[1])

\* The span starts in the middle of an English word.
StartsMidWord ==
  /\ om.language = "English"
  /\ om.char_pos[1] < Len(om.text)
  /\ CharAt(om.char_pos[1]) # Blank
  /\ ~WordStartsAt(om.char_pos[1])

\* C13: for both languages and every character span with
\* 0 <= start <= end <= len(text), spans that begin or end in the middle of
\* an English word included, the mapped word span satisfies
\* 0 <= word_start <= word_end <= number of words of the text, and
\* word_start is the index of the word that contains the character at start.
C13_OffsetsStayInsideWords ==
  Mapped => InsideWords /\ StartsAtItsWord

\* The same for the spans that do not start in the middle of an English
\* word.
InsideWordsUnlessMidWord ==
  (Mapped /\ ~StartsMidWord) => InsideWords /\ StartsAtItsWord

(* ------------------------------- C14 ---------------------------------- *)
\* A sequence-labeling run has left its loops, passed the alignment
\* assertion and reached the score with as many labels as predictions.
SLReachedScore(r) ==
  /\ eof /\ Going(r) /\ AlignedSL(r)
  /\ Len(label_names(r)) = Len(results(r))

\* The event-detection run has left its loop with gold events in the last
\* document and reached the score with as many labels as predictions.
EDReachedScore ==
  /\ eof /\ item.has_events
  /\ \/ ed.status = "done"
     \/ ed.status = "error"
        /\ ed.error \in {"ValueError: pos_labels.remove", "ValueError: f1_score"}
  /\ Len(ed.label_names) = Len(ed.results)

\* No gold label of the run is NA.
NoNALabel(r) == NA \notin Range(label_names(r))

\* C14: whenever the gold labels and the predictions are equally many, the
\* positive label set is the set of the distinct gold labels without NA and
\* the score is computed without an exception, also when no gold label is
\* NA (a file without negative triggers).
C14_ScoringNeverFails ==
  \A m \in Modes : SLReachedScore(sl[m]) => Returned(sl[m])

\* The same for the runs some gold label of which is NA.
ScoringCompletesWithNALabel ==
  \A m \in Modes :
    (SLReachedScore(sl[m]) /\ ~NoNALabel(sl[m])) => Returned(sl[m])

\* The same for the event-detection pass.
EDScoringNeverFails ==
  EDReachedScore => ed.status = "done"
====
